---- MODULE Spec2Model ----
(***************************************************************************)
(* ClassConnect chat client: the three variants of AppInner                *)
(*   A = src/src/client/index.tsx, B = src/unnamed/part_000,               *)
(*   C = src/unnamed/part_001                                              *)
(* modelled as one state machine.  The state is the React state of the     *)
(* mounted component (messages, participants, unread, focused), its refs   *)
(* (socketRef, pendingRef), the two localStorage items of the room, and    *)
(* the frames handed to the channel's send.                                *)
(***************************************************************************)
EXTENDS Integers, Sequences, FiniteSets, TLC

(* ---------------- bounds of the model ---------------- *)
\* how many identifiers nanoid() hands out to the local client
MaxSubmits == 1
\* how many times, in all, the channel opens, the heartbeat timer fires and
\* the page is reloaded
MaxEvents == 1

(* ---------------- values ---------------- *)
\* a field that is absent from a JSON object (reads as undefined)
Undefined == "undefined"
\* an identifier that is absent
NoId == <<"undefined", 0>>
\* an identifier that is the empty string
EmptyId == <<"", 0>>
\* !m.id: the identifier is absent or empty
Falsy(id) == id \in {NoId, EmptyId}
\* an identifier generator that returns an identifier another client uses
nanoidRepeats(k) == <<"r", 1>>

\* nanoid(): the k-th identifier generated by this client
nanoid(k) == <<"n", k>>
\* the identifiers other clients use
RemoteIds == {<<"r", 1>>}
\* the list never gains more entries than there are identifiers (one of them
\* absent); one more entry is a duplicate
MaxGrowth == MaxSubmits + Cardinality(RemoteIds) + 2
Variants == {"A", "B", "C"}
Users == {"ann", "bob"}
Contents == {"hi", "yo"}
\* the (user, content) pairs inbound message frames carry
Authored == {<<"ann", "hi">>, <<"bob", "yo">>}
\* what the composer's input can hold at submit
Texts == {"", " ", "hi "}

\* String.prototype.trim on the composer texts
Trim(t) == CASE t = " " -> "" [] t = "hi " -> "hi" [] OTHER -> t

\* b if present, else a: one field of the spread { ...a, ...b }
Over(a, b, absent) == IF b = absent THEN a ELSE b

\* the first n entries of s
FirstN(s, n) == IF Len(s) <= n THEN s ELSE SubSeq(s, 1, n)

\* the last n entries of s: Array.prototype.slice(-n)
LastN(s, n) == IF Len(s) <= n THEN s ELSE SubSeq(s, Len(s) - n + 1, Len(s))

\* Array.prototype.findIndex by identifier over 1-based positions; 0 stands for -1
IndexOfId(s, id) ==
    IF \E i \in 1..Len(s) : s[i].id = id
    THEN CHOOSE i \in 1..Len(s) : s[i].id = id /\ \A j \in 1..(i - 1) : s[j].id # id
    ELSE 0

\* Array.prototype.findIndex by user name; 0 stands for -1
IndexOfUser(s, u) ==
    IF \E i \in 1..Len(s) : s[i].user = u
    THEN CHOOSE i \in 1..Len(s) : s[i].user = u /\ \A j \in 1..(i - 1) : s[j].user # u
    ELSE 0

IdsOf(s) == {s[i].id : i \in 1..Len(s)}

(* ---------------- rooms ---------------- *)
\* the room of the path the user first opened
FirstRoom == <<"math", 0>>
\* the room variant C's root route redirects to
General == <<"general", 0>>
\* nanoid() in the root route of A and B: a room identifier no room in
\* used carries
FreshRoom(used) == <<"random", Cardinality({r \in used : r[1] = "random"}) + 1>>

\* where <Route path="/"> sends the browser
RootTarget(v, used) == IF v = "C" THEN General ELSE FreshRoom(used)

(* ---------------- inbound payloads (evt.data) ---------------- *)
\* A payload is a string; json tells what JSON.parse makes of it: it throws
\* ("invalid"), or yields null, a number, a string, or an object whose
\* fields are the remaining components (absent fields read as undefined).
\* The id field is a message identifier in add and update frames (id) and a
\* client identifier in presence frames (pid).
Data(json, type, id, pid, content, user, role, status, lastSeen, isArray, list) ==
    [json |-> json, type |-> type, id |-> id, pid |-> pid, content |-> content,
     user |-> user, role |-> role, status |-> status, lastSeen |-> lastSeen,
     isArray |-> isArray, participants |-> list]

NonObject(json) ==
    Data(json, Undefined, NoId, Undefined, Undefined, Undefined, Undefined, Undefined,
         Undefined, FALSE, <<>>)
MessageFrame(type, id, content, user, role) ==
    Data("object", type, id, Undefined, content, user, role, Undefined, Undefined,
         FALSE, <<>>)
PresenceFrame(user, status, lastSeen, pid) ==
    Data("object", "presence", NoId, pid, Undefined, user, Undefined, status, lastSeen,
         FALSE, <<>>)
SnapshotFrame(isArray, list) ==
    Data("object", "participants", NoId, Undefined, Undefined, Undefined, Undefined,
         Undefined, Undefined, isArray, list)

\* JSON.parse throws a SyntaxError
ParseThrows(data) == data.json = "invalid"
\* !msg || typeof msg !== "object"
NotAnObject(data) == data.json # "object"

(* ---------------- state ---------------- *)
VARIABLES
    variant,       \* which source file is running
    name,          \* the local display name (cc:name)
    messages,      \* useState / usePersistentState: the room's message list
    participants,  \* the room's participant list
    unread,        \* variant C: unread counter
    focused,       \* variant C: window focus
    pendingRef,    \* variant C: Map id -> payload, in insertion order
    channel,       \* the socket behind socketRef.current: "open" or "closed"
    stored,        \* localStorage item cc:messages:<room>
    storedP,       \* localStorage item cc:participants:<room>
    handed,        \* bag of the frames passed to socketRef.current.send so far
    nextId,        \* how many identifiers nanoid has generated, plus one
    events,        \* how many opens, heartbeats and reloads there have been
    base,          \* length of the message list at start
    uncaught,      \* an exception escaped the last handler
    phase,         \* "mounted"; "unloading" once beforeunload has run on this
                   \* mount; "unmounted" once the effect cleanups have run
    roomId,        \* the room of the current path /:room
    shelf,         \* localStorage: the items cc:messages:<r> and
                   \* cc:participants:<r> of the rooms r other than roomId
    last,          \* the last handler that ran and what it did
    changes,       \* how often the room changed under the mounted component
    ledger         \* history: <<"submitted" | "received" | "sent", room, id>>, the
                   \* room that was current when a message was submitted,
                   \* when a frame brought it into the list (noted unless it
                   \* was submitted in that room), and when an add frame
                   \* carrying it was passed to send

vars == <<variant, name, messages, participants, unread, focused, pendingRef, channel,
          stored, storedP, handed, nextId, events, base, uncaught, phase, roomId,
          shelf, last, changes, ledger>>

clientId == "c0"
\* new Date().toISOString() of the local clock
Now == "t9"

(* ---------------- messages ---------------- *)
\* an entry of the message list; variants A and B have no pending field (falsy)
Entry(id, content, user, role, pending) ==
    [id |-> id, content |-> content, user |-> user, role |-> role, pending |-> pending]

\* variants A, B: the ChatMessage handleIncoming builds from an add or update frame
NewMsg(msg) == Entry(msg.id, msg.content, msg.user, msg.role, FALSE)

\* addMessage without its duplicate check
addMessageNoDedupe(prev, m) == IF Falsy(m.id) THEN prev ELSE Append(prev, m)

\* an addMessage that overwrites the entry it finds
addMessageLastWins(prev, m) ==
    IF Falsy(m.id) THEN prev
    ELSE IF \E i \in 1..Len(prev) : prev[i].id = m.id
         THEN [i \in 1..Len(prev) |-> IF prev[i].id = m.id THEN m ELSE prev[i]]
    ELSE Append(prev, m)

\* an addMessage that drops a message only when its identifier is absent
addMessageKeepsEmpty(prev, m) ==
    IF m.id = NoId THEN prev
    ELSE IF \E i \in 1..Len(prev) : prev[i].id = m.id THEN prev
    ELSE Append(prev, m)

\* variants A, B: addMessage
addMessage(prev, m) ==
    IF Falsy(m.id) THEN prev
    ELSE IF \E i \in 1..Len(prev) : prev[i].id = m.id THEN prev
    ELSE Append(prev, m)

\* an updateMessage that inserts the message when no entry has its identifier
updateMessageUpserts(prev, m) ==
    IF \E i \in 1..Len(prev) : prev[i].id = m.id
    THEN [i \in 1..Len(prev) |-> IF prev[i].id = m.id THEN m ELSE prev[i]]
    ELSE Append(prev, m)

\* variants A, B: updateMessage
updateMessage(prev, m) ==
    [i \in 1..Len(prev) |-> IF prev[i].id = m.id THEN m ELSE prev[i]]

\* a merge that leaves the pending flag as it was
MergedKeepsPending(old, msg) ==
    Entry(Over(old.id, msg.id, NoId), Over(old.content, msg.content, Undefined),
          Over(old.user, msg.user, Undefined), Over(old.role, msg.role, Undefined),
          old.pending)

\* variant C: { ...old, ...msg, pending: false }
Merged(old, msg) ==
    Entry(Over(old.id, msg.id, NoId), Over(old.content, msg.content, Undefined),
          Over(old.user, msg.user, Undefined), Over(old.role, msg.role, Undefined), FALSE)

\* variant C: how far back reconcile looks for an optimistic entry
RecentWindow == 40

\* a search that takes the oldest matching pending entry of the whole list
IndexOfOptimisticOldest(prev, msg) ==
    LET hit == {i \in 1..Len(prev) :
                   prev[i].pending /\ prev[i].user = msg.user /\ prev[i].content = msg.content}
    IN  IF hit = {} THEN 0 ELSE CHOOSE i \in hit : \A j \in hit : i <= j

\* variant C: the position reconcile's backward loop stops at, 0 if none
IndexOfOptimistic(prev, msg) ==
    LET lo == IF Len(prev) - RecentWindow > 0 THEN Len(prev) - RecentWindow + 1 ELSE 1
        hit == {i \in lo..Len(prev) :
                   prev[i].pending /\ prev[i].user = msg.user /\ prev[i].content = msg.content}
    IN  IF hit = {} THEN 0 ELSE CHOOSE i \in hit : \A j \in hit : j <= i

\* variant C: which branch of reconcile an add frame takes
reconcileCase(prev, msg) ==
    IF IndexOfId(prev, msg.id) # 0 THEN "byId"
    ELSE IF IndexOfOptimistic(prev, msg) # 0 THEN "byContent"
    ELSE "append"

\* variant C: Map.prototype.delete on pendingRef
MapDelete(map, id) == SelectSeq(map, LAMBDA p : p.id # id)

\* variant C: Map.prototype.set on pendingRef (a new key goes last)
MapSet(map, payload) ==
    IF \E i \in 1..Len(map) : map[i].id = payload.id
    THEN [i \in 1..Len(map) |-> IF map[i].id = payload.id THEN payload ELSE map[i]]
    ELSE Append(map, payload)

\* a reconcile that moves the entry it confirms to the end of the list
reconcileMovesToEnd(prev, msg) ==
    LET byId == IndexOfId(prev, msg.id)
        i == IndexOfOptimistic(prev, msg)
        hit == IF byId # 0 THEN byId ELSE i
    IN  IF hit # 0
        THEN Append(SubSeq(prev, 1, hit - 1) \o SubSeq(prev, hit + 1, Len(prev)),
                    Merged(prev[hit], msg))
        ELSE Append(prev, Entry(msg.id, msg.content, msg.user, msg.role, FALSE))

\* variant C: reconcile, the new message list
reconcile(prev, msg) ==
    LET byId == IndexOfId(prev, msg.id)
        i == IndexOfOptimistic(prev, msg)
    IN  IF byId # 0 THEN [prev EXCEPT ![byId] = Merged(prev[byId], msg)]
        ELSE IF i # 0 THEN [prev EXCEPT ![i] = Merged(prev[i], msg)]
        ELSE Append(prev, Entry(msg.id, msg.content, msg.user, msg.role, FALSE))

\* variant C: reconcile, what it leaves in pendingRef
reconcilePending(map, prev, msg) ==
    LET byId == IndexOfId(prev, msg.id)
        i == IndexOfOptimistic(prev, msg)
    IN  IF byId # 0 THEN MapDelete(map, msg.id)
        ELSE IF i # 0 THEN MapDelete(map, prev[i].id)
        ELSE MapDelete(map, msg.id)

\* data.content.includes(`@${name}`)
Mentions(content, n) == content = "@ann" /\ n = "ann"

(* ---------------- local storage ---------------- *)
\* messages.slice(-500) in variant C's persist effect
PersistLimit == 500

\* JSON.parse(JSON.stringify(list)): every field of an entry survives
\* (absent and undefined fields both read back as undefined)
JsonRoundTrip(list) ==
    [i \in 1..Len(list) |->
        Entry(list[i].id, list[i].content, list[i].user, list[i].role, list[i].pending)]

\* what the persist effect leaves under cc:messages:<room>
PersistMessages(v, list) ==
    [present |-> TRUE,
     items |-> JsonRoundTrip(IF v = "C" THEN LastN(list, PersistLimit) ELSE list)]

\* a load that ignores what is stored
LoadNothing(item) == <<>>

\* raw ? JSON.parse(raw) : []
LoadItem(item) == IF item.present THEN item.items ELSE <<>>

(* ---------------- participants ---------------- *)
Participant(user, status, lastSeen, id) ==
    [user |-> user, status |-> status, lastSeen |-> lastSeen, id |-> id]

\* msg.status || "online" (A, B), data.status ?? "online" (C)
StatusOr(status) == IF status = Undefined THEN "online" ELSE status

\* the Participant a presence frame is turned into
PresenceEntry(v, msg) ==
    Participant(msg.user, StatusOr(msg.status), msg.lastSeen,
                IF v = "C" THEN Over(msg.user, msg.pid, Undefined) ELSE msg.pid)

\* an updater that never looks for the user
upsertAlwaysAppends(prev, p) == Append(prev, p)

\* an updater that looks for the entry by its client id
upsertMatchesById(prev, p) ==
    IF \E i \in 1..Len(prev) : prev[i].id = p.id
    THEN [i \in 1..Len(prev) |-> IF prev[i].id = p.id THEN p ELSE prev[i]]
    ELSE Append(prev, p)

\* an updater that takes a user who went offline out of the list
upsertDropsOffline(prev, p) ==
    IF p.status = "offline" THEN SelectSeq(prev, LAMBDA q : q.user # p.user)
    ELSE IF IndexOfUser(prev, p.user) = 0 THEN Append(prev, p)
    ELSE [prev EXCEPT ![IndexOfUser(prev, p.user)] = p]

\* the setParticipants updater of a presence frame and of sendPresence:
\* p carries all four keys, so { ...copy[found], ...p } is p
upsertParticipant(prev, p) ==
    LET found == IndexOfUser(prev, p.user)
    IN  IF found = 0 THEN Append(prev, p) ELSE [prev EXCEPT ![found] = p]

\* a snapshot merged into whatever the list misses of it
RECURSIVE mergedInto(_, _)
mergedInto(prev, list) ==
    IF list = <<>> THEN prev
    ELSE mergedInto(IF IndexOfUser(prev, Head(list).user) = 0
                    THEN Append(prev, Head(list)) ELSE prev, Tail(list))

\* list.map(...) over a participants snapshot
normalized(msg) ==
    LET list == IF msg.isArray THEN msg.participants ELSE <<>>
    IN  [i \in 1..Len(list) |->
            Participant(list[i].user, StatusOr(list[i].status), list[i].lastSeen, list[i].id)]

\* what the persist effect leaves under cc:participants:<room>
PersistParticipants(list) ==
    [present |-> TRUE,
     items |-> [i \in 1..Len(list) |->
                  Participant(list[i].user, list[i].status, list[i].lastSeen, list[i].id)]]

(* ---------------- the channel ---------------- *)
\* a frame passed to send (JSON.stringify of the payload)
Out(type, id, pid, content, user, role, status) ==
    [type |-> type, id |-> id, pid |-> pid, content |-> content, user |-> user,
     role |-> role, status |-> status]

AddOut(id, content, user) == Out("add", id, Undefined, content, user, "user", Undefined)
PresenceOut(user, status) ==
    Out("presence", NoId, clientId, Undefined, user, Undefined, status)

\* send on a socket that is not open fails
SendThrows(ch) == ch # "open"

\* a handler without its try/catch
EscapesUncaught(threw) == threw

\* try { ... } catch { }: no exception leaves the handler
Escapes(threw) == FALSE

\* the bag handed, with the frames of seq added
RECURSIVE HandAll(_, _)
HandAll(bag, seq) ==
    IF seq = <<>> THEN bag
    ELSE HandAll(IF Head(seq) \in DOMAIN bag
                 THEN [bag EXCEPT ![Head(seq)] = @ + 1]
                 ELSE bag @@ (Head(seq) :> 1),
                 Tail(seq))

\* how often a frame was handed to send
HandedIn(bag, f) == IF f \in DOMAIN bag THEN bag[f] ELSE 0
Handed(f) == HandedIn(handed, f)
\* the add frames handed to send so far
AddsHanded(bag) == {f \in DOMAIN bag : f.type = "add"}

\* what a handler leaves in last
Did(op, how) == [op |-> op, how |-> how]

\* the identifiers of the add frames of seq
AddIds(seq) == {seq[i].id : i \in {j \in 1..Len(seq) : seq[j].type = "add"}}
\* the identifier an inbound frame brought into the list: the frame's own, if
\* no entry had it before and one has it now
Brought(prev, next, data) ==
    IF next = prev THEN {}
    ELSE {id \in {data.id} : /\ \A i \in 1..Len(prev) : prev[i].id # id
                             /\ \E i \in 1..Len(next) : next[i].id = id}
\* ledger entries of one kind for the room
Noted(kind, room, ids) == {<<kind, room, id>> : id \in ids}

(* ---------------- mount ---------------- *)
\* sendPresence's setParticipants updater
sendPresenceLocal(prev, n, status) ==
    upsertParticipant(prev, Participant(n, status, Now, clientId))

\* the participant list once the mount effects have run: the list loaded from
\* storage, then sendPresence("online") of the presence effect
MountParticipants(loaded, n) == sendPresenceLocal(loaded, n, "online")

(* ---------------- initial state: the component has mounted ---------------- *)
Init ==
    /\ variant \in Variants
    /\ name = "ann"
    /\ messages = <<>>
    /\ participants = MountParticipants(<<>>, name)
    /\ unread = 0
    /\ focused = TRUE
    /\ pendingRef = <<>>
    /\ channel = "closed"
    /\ stored = PersistMessages(variant, <<>>)
    /\ storedP = PersistParticipants(participants)
    /\ handed = HandAll(<<>>, <<PresenceOut(name, "online")>>)
    /\ nextId = 1
    /\ events = 0
    /\ base = 0
    /\ uncaught = FALSE
    /\ phase = "mounted"
    /\ roomId = FirstRoom
    /\ shelf = <<>>
    /\ last = Did("mount", "none")
    /\ changes = 0
    /\ ledger = {}

(* ---------------- local submit ---------------- *)
\* a submit that calls send twice
SubmitOutTwice(v, frame) == <<frame, frame>>

\* the frames sendChat (A, B) or send (C) passes to socketRef.current.send
SubmitOut(v, frame) == <<frame>>

\* The composer's submit handler and sendChat (A, B) or send({ text }) (C).
Submit(text) ==
    LET content == Trim(text)
        id == nanoid(nextId)
        frame == AddOut(id, content, name)
        escaped == Escapes(SendThrows(channel))
    IN  IF content = ""
        THEN /\ phase # "unmounted"
             /\ last' = Did("submit", "blank")
             /\ uncaught' = FALSE
             /\ UNCHANGED <<variant, name, messages, participants, unread, focused,
                            pendingRef, channel, stored, storedP, handed, nextId, events,
                            base, phase, roomId, shelf, changes, ledger>>
        ELSE /\ phase # "unmounted"
             /\ nextId <= MaxSubmits
             /\ Len(messages) < base + MaxGrowth
             /\ nextId' = nextId + 1
             /\ handed' = HandAll(handed, SubmitOut(variant, frame))
             /\ pendingRef' = IF variant = "C" THEN MapSet(pendingRef, frame) ELSE pendingRef
             /\ messages' =
                  IF variant = "C"
                  THEN IF escaped THEN messages
                       ELSE Append(messages, Entry(id, content, name, "user", TRUE))
                  ELSE addMessage(messages, Entry(id, content, name, "user", FALSE))
             /\ stored' = PersistMessages(variant, messages')
             /\ uncaught' = escaped
             /\ last' = Did("submit", "sent")
             /\ ledger' = ledger \cup Noted("submitted", roomId, {id})
                                \cup Noted("sent", roomId, AddIds(SubmitOut(variant, frame)))
             /\ UNCHANGED <<variant, name, participants, unread, focused, channel, storedP,
                            events, base, phase, roomId, shelf, changes>>

(* ---------------- inbound frame ---------------- *)
\* the message list handleIncoming (A, B) or onMessage (C) leaves
IncomingMessages(v, prev, data) ==
    IF ParseThrows(data) \/ NotAnObject(data) THEN prev
    ELSE IF data.type = "add"
         THEN IF v = "C" THEN reconcile(prev, data) ELSE addMessage(prev, NewMsg(data))
    ELSE IF data.type = "update" /\ v # "C" THEN updateMessage(prev, NewMsg(data))
    ELSE prev

\* a handler that merges a snapshot into the list
IncomingParticipantsMerge(v, prev, data) ==
    IF ParseThrows(data) \/ NotAnObject(data) THEN prev
    ELSE IF data.type = "presence" THEN upsertParticipant(prev, PresenceEntry(v, data))
    ELSE IF data.type = "participants" THEN mergedInto(prev, normalized(data))
    ELSE prev

\* a handler whose last branch takes every other object for a snapshot
IncomingParticipantsFallThrough(v, prev, data) ==
    IF ParseThrows(data) THEN prev
    ELSE IF data.type = "presence" THEN upsertParticipant(prev, PresenceEntry(v, data))
    ELSE normalized(data)

\* the participant list handleIncoming (A, B) or onMessage (C) leaves
IncomingParticipants(v, prev, data) ==
    IF ParseThrows(data) \/ NotAnObject(data) THEN prev
    ELSE IF data.type = "presence" THEN upsertParticipant(prev, PresenceEntry(v, data))
    ELSE IF data.type = "participants" THEN normalized(data)
    ELSE prev

\* variant C: pendingRef after onMessage
IncomingPending(v, map, prev, data) ==
    IF v = "C" /\ ~ParseThrows(data) /\ ~NotAnObject(data) /\ data.type = "add"
    THEN reconcilePending(map, prev, data)
    ELSE map

\* a handler that counts an add frame only while the window is unfocused
IncomingUnreadNoMention(v, u, isFocused, n, data) ==
    IF v = "C" /\ ~ParseThrows(data) /\ ~NotAnObject(data) /\ data.type = "add"
       /\ ~isFocused
    THEN u + 1
    ELSE u

\* variant C: the unread counter after onMessage
IncomingUnread(v, u, isFocused, n, data) ==
    IF v = "C" /\ ~ParseThrows(data) /\ ~NotAnObject(data) /\ data.type = "add"
       /\ (~isFocused \/ Mentions(data.content, n))
    THEN u + 1
    ELSE u

\* which branch the handler took
IncomingHow(v, prev, plist, data) ==
    IF ParseThrows(data) THEN "invalid"
    ELSE IF NotAnObject(data) THEN "nonobject"
    ELSE IF data.type = "add"
         THEN IF v = "C" THEN reconcileCase(prev, data)
              ELSE IF Falsy(data.id) THEN "dropped"
              ELSE IF IndexOfId(prev, data.id) # 0 THEN "duplicate"
              ELSE "append"
    ELSE IF data.type = "update"
         THEN IF v = "C" THEN "ignored"
              ELSE IF IndexOfId(prev, data.id) # 0 THEN "replaced" ELSE "nomatch"
    ELSE IF data.type = "presence"
         THEN IF IndexOfUser(plist, data.user) # 0 THEN "known" ELSE "unknown"
    ELSE IF data.type = "participants" THEN "snapshot"
    ELSE "ignored"

FrameTypes == {"add", "update", "presence", "participants"}

Receive(data) ==
    /\ phase # "unmounted"
    /\ messages' = IncomingMessages(variant, messages, data)
    /\ Len(messages') <= base + MaxGrowth
    /\ participants' = IncomingParticipants(variant, participants, data)
    /\ pendingRef' = IncomingPending(variant, pendingRef, messages, data)
    /\ unread' = IncomingUnread(variant, unread, focused, name, data)
    /\ stored' = PersistMessages(variant, messages')
    /\ storedP' = PersistParticipants(participants')
    /\ uncaught' = Escapes(ParseThrows(data))
    /\ last' = Did(IF data.json = "object" /\ data.type \in FrameTypes
                   THEN data.type ELSE "malformed", IncomingHow(variant, messages, participants, data))
    /\ ledger' = ledger \cup Noted("received", roomId,
                                   {id \in Brought(messages, messages', data) :
                                       <<"submitted", roomId, id>> \notin ledger})
    /\ UNCHANGED <<variant, name, focused, channel, handed, nextId, events,
                   base, phase, roomId, shelf, changes>>

(* ---------------- the channel opens and closes ---------------- *)
\* an onOpen that announces presence and leaves the queue alone
OpenOutPresenceOnly(v, n, map) ==
    IF v = "C" THEN <<PresenceOut(n, "online")>> ELSE <<>>

\* variant C: onOpen sends presence, then flushes pendingRef in insertion order
OpenOut(v, n, map) ==
    IF v = "C" THEN <<PresenceOut(n, "online")>> \o map ELSE <<>>

Open ==
    /\ phase # "unmounted"
    /\ channel = "closed"
    /\ events < MaxEvents
    /\ channel' = "open"
    /\ events' = events + 1
    /\ handed' = HandAll(handed, OpenOut(variant, name, pendingRef))
    /\ uncaught' = FALSE
    /\ last' = Did("open", "none")
    /\ ledger' = ledger \cup Noted("sent", roomId, AddIds(OpenOut(variant, name, pendingRef)))
    /\ UNCHANGED <<variant, name, messages, participants, unread, focused, pendingRef,
                   stored, storedP, nextId, base, phase, roomId, shelf, changes>>

Close ==
    /\ phase # "unmounted"
    /\ channel = "open"
    /\ channel' = "closed"
    /\ uncaught' = FALSE
    /\ last' = Did("close", "none")
    /\ UNCHANGED <<variant, name, messages, participants, unread, focused, pendingRef,
                   stored, storedP, handed, nextId, events, base, phase, roomId, shelf,
                   changes, ledger>>

(* ---------------- window focus ---------------- *)
\* variant C: onFocus
Focus ==
    /\ variant = "C"
    /\ phase # "unmounted"
    /\ focused' = TRUE
    /\ unread' = 0
    /\ uncaught' = FALSE
    /\ last' = Did("focus", "none")
    /\ UNCHANGED <<variant, name, messages, participants, pendingRef, channel, stored,
                   storedP, handed, nextId, events, base, phase, roomId, shelf, changes, ledger>>

\* variant C: onBlur
Blur ==
    /\ variant = "C"
    /\ phase # "unmounted"
    /\ focused' = FALSE
    /\ uncaught' = FALSE
    /\ last' = Did("blur", "none")
    /\ UNCHANGED <<variant, name, messages, participants, unread, pendingRef, channel,
                   stored, storedP, handed, nextId, events, base, phase, roomId, shelf, changes, ledger>>

(* ---------------- heartbeat ---------------- *)
\* an interval that no handler ever clears
TimerNeverCleared(ph) == TRUE

\* the interval set by the presence effect fires until the effect's cleanup
\* clears it; the beforeunload handler leaves it set
TimerRuns(ph) == ph # "unmounted"

\* the interval callback: sendPresence("online")
Heartbeat ==
    /\ TimerRuns(phase)
    /\ events < MaxEvents
    /\ events' = events + 1
    /\ handed' = HandAll(handed, <<PresenceOut(name, "online")>>)
    /\ participants' = sendPresenceLocal(participants, name, "online")
    /\ storedP' = PersistParticipants(participants')
    /\ uncaught' = Escapes(SendThrows(channel))
    /\ last' = Did("heartbeat", "none")
    /\ UNCHANGED <<variant, name, messages, unread, focused, pendingRef, channel, stored,
                   nextId, base, phase, roomId, shelf, changes, ledger>>

(* ---------------- page reload ---------------- *)
\* beforeunload runs sendPresence("offline"); the new page builds its state
\* from local storage (usePersistentState in A and B, the load effect in C)
\* and runs the mount effects; refs and the socket are new.
Reload ==
    /\ phase # "unmounted"
    /\ events < MaxEvents
    /\ events' = events + 1
    /\ messages' = LoadItem(stored)
    /\ participants' = MountParticipants(LoadItem(storedP), name)
    /\ pendingRef' = <<>>
    /\ unread' = 0
    /\ focused' = TRUE
    /\ channel' = "closed"
    /\ stored' = PersistMessages(variant, messages')
    /\ storedP' = PersistParticipants(participants')
    /\ handed' = HandAll(handed, <<PresenceOut(name, "offline"), PresenceOut(name, "online")>>)
    /\ uncaught' = FALSE
    /\ phase' = "mounted"
    /\ last' = Did("reload", "none")
    /\ UNCHANGED <<variant, name, nextId, base, roomId, shelf, changes, ledger>>

(* ---------------- unload, unmount, mount ---------------- *)
\* the beforeunload listener: sendPresence("offline").  The page may stay
\* (the navigation is cancelled, or the page is restored from the
\* back/forward cache), and the handler does not clear the interval.
BeforeUnload ==
    /\ phase = "mounted"
    /\ handed' = HandAll(handed, <<PresenceOut(name, "offline")>>)
    /\ participants' = sendPresenceLocal(participants, name, "offline")
    /\ storedP' = PersistParticipants(participants')
    /\ uncaught' = Escapes(SendThrows(channel))
    /\ phase' = "unloading"
    /\ last' = Did("beforeunload", "none")
    /\ UNCHANGED <<variant, name, messages, unread, focused, pendingRef, channel, stored,
                   nextId, events, base, roomId, shelf, changes, ledger>>

\* the cleanup of the presence effect at unmount: the interval is cleared, an
\* offline frame is passed to send, the listener is removed.  The component's
\* state is no longer rendered (A and B call setParticipants on it, to no
\* effect) and usePartySocket closes the socket.
Unmount ==
    /\ phase # "unmounted"
    /\ handed' = HandAll(handed, <<PresenceOut(name, "offline")>>)
    /\ channel' = "closed"
    /\ uncaught' = Escapes(SendThrows(channel))
    /\ phase' = "unmounted"
    /\ last' = Did("unmount", "none")
    /\ UNCHANGED <<variant, name, messages, participants, unread, focused, pendingRef,
                   stored, storedP, nextId, events, base, roomId, shelf, changes, ledger>>

\* localStorage.getItem of a key that was never written
AbsentItem == [present |-> FALSE, items |-> <<>>]

\* the two items of room r, with those of the current room cur
ItemsOf(sh, cur, m, p, r) ==
    IF r = cur THEN [m |-> m, p |-> p]
    ELSE IF r \in DOMAIN sh THEN sh[r]
    ELSE [m |-> AbsentItem, p |-> AbsentItem]

\* the items of the rooms other than r, once the path is /r
ShelfAt(sh, cur, m, p, r) ==
    [q \in (DOMAIN sh \cup {cur}) \ {r} |-> ItemsOf(sh, cur, m, p, q)]

\* AppInner mounts at path /room, on a page loaded after the earlier page was
\* left: state is built from the room's local storage items and the mount
\* effects run
MountAt(room, how) ==
    LET items == ItemsOf(shelf, roomId, stored, storedP, room)
    IN  /\ phase # "mounted"
        /\ events < MaxEvents
        /\ events' = events + 1
        /\ roomId' = room
        /\ shelf' = ShelfAt(shelf, roomId, stored, storedP, room)
        /\ messages' = LoadItem(items.m)
        /\ participants' = MountParticipants(LoadItem(items.p), name)
        /\ pendingRef' = <<>>
        /\ unread' = 0
        /\ focused' = TRUE
        /\ channel' = "closed"
        /\ stored' = PersistMessages(variant, messages')
        /\ storedP' = PersistParticipants(participants')
        /\ handed' = HandAll(handed, <<PresenceOut(name, "online")>>)
        /\ uncaught' = FALSE
        /\ phase' = "mounted"
        /\ last' = Did("mount", how)
        /\ UNCHANGED <<variant, name, nextId, base, changes, ledger>>

\* the page is opened again at the path it was left at
Mount == MountAt(roomId, "again")

\* the application is opened at its root path: the root route redirects
OpenRoot == MountAt(RootTarget(variant, DOMAIN shelf \cup {roomId}), "root")

(* ---------------- inputs ---------------- *)
\* identifiers an inbound frame can carry: any this client has generated and
\* any of another client's
InboundIds == {nanoid(k) : k \in 1..(nextId - 1)} \cup RemoteIds

\* add frames with an identifier, and one without
AddFrames ==
    {MessageFrame("add", id, a[2], a[1], "user") : id \in InboundIds, a \in Authored}
    \cup {MessageFrame("add", NoId, "yo", "bob", "user")}
UpdateFrames ==
    {MessageFrame("update", id, a[2], a[1], "user") : id \in InboundIds, a \in Authored}
Malformed ==
    {NonObject(j) : j \in {"invalid", "null", "number", "string"}}
    \cup {MessageFrame(t, id, "hi", "ann", "user") : t \in {Undefined, "typing"}, id \in RemoteIds}

SubmitAny == \E text \in Texts : Submit(text)
ReceiveAdd == \E data \in AddFrames : Receive(data)
ReceiveUpdate == \E data \in UpdateFrames : Receive(data)
ReceiveMalformed == \E data \in Malformed : Receive(data)

Next ==
    \/ SubmitAny
    \/ ReceiveAdd
    \/ ReceiveUpdate
    \/ ReceiveMalformed
    \/ Open
    \/ Close
    \/ Reload

Spec == Init /\ [][Next]_vars

(* ---------------- a room with a long history ---------------- *)
\* n messages of another client, already confirmed
History(n) == [i \in 1..n |-> Entry(<<"f", i>>, "hi", "bob", "user", FALSE)]

\* The list is one entry short of what variant C persists.
InitLong ==
    /\ variant \in Variants
    /\ name = "ann"
    /\ messages = History(PersistLimit - 1)
    /\ participants = MountParticipants(<<>>, name)
    /\ unread = 0
    /\ focused = TRUE
    /\ pendingRef = <<>>
    /\ channel = "closed"
    /\ stored = PersistMessages(variant, messages)
    /\ storedP = PersistParticipants(participants)
    /\ handed = HandAll(<<>>, <<PresenceOut(name, "online")>>)
    /\ nextId = 1
    /\ events = 0
    /\ base = Len(messages)
    /\ uncaught = FALSE
    /\ phase = "mounted"
    /\ roomId = FirstRoom
    /\ shelf = <<>>
    /\ last = Did("mount", "none")
    /\ changes = 0
    /\ ledger = {}

LongAddFrames ==
    {MessageFrame("add", id, "hi", "ann", "user") : id \in InboundIds \cup {NoId, <<"f", 1>>}}
LongUpdateFrames == {MessageFrame("update", <<"f", 1>>, "yo", "ann", "user")}

ReceiveLongAdd == \E data \in LongAddFrames : Receive(data)
ReceiveLongUpdate == \E data \in LongUpdateFrames : Receive(data)

\* The channel stays closed: every send fails.
NextLong ==
    \/ SubmitAny
    \/ ReceiveLongAdd
    \/ ReceiveLongUpdate
    \/ Heartbeat
    \/ Reload

SpecLong == InitLong /\ [][NextLong]_vars

(* ---------------- presence traffic ---------------- *)
Statuses == {Undefined, "online", "offline"}
\* a presence frame carries lastSeen and id, or neither
PresenceFrames ==
    {PresenceFrame(u, st, x[1], x[2]) :
        u \in Users, st \in Statuses, x \in {<<Undefined, Undefined>>, <<"t1", "c1">>}}
\* the objects a participants snapshot lists
SnapshotEntries ==
    {Participant("bob", Undefined, "t1", "c1"), Participant("bob", "offline", "t1", "c1"),
     Participant("ann", "offline", Undefined, Undefined)}
\* how many entries a snapshot lists at most
MaxSnapshot == 2
SnapshotFrames ==
    {SnapshotFrame(FALSE, <<>>), SnapshotFrame(TRUE, <<>>)}
    \cup UNION {{SnapshotFrame(TRUE, list) : list \in [1..n -> SnapshotEntries]} :
                   n \in 1..MaxSnapshot}

ReceivePresence == \E data \in PresenceFrames : Receive(data)
ReceiveSnapshot == \E data \in SnapshotFrames : Receive(data)

NextPresence ==
    \/ ReceivePresence
    \/ ReceiveSnapshot
    \/ ReceiveMalformed
    \/ Heartbeat
    \/ Reload

SpecPresence == Init /\ [][NextPresence]_vars

(* ---------------- the life of a mount ---------------- *)
NextLifecycle ==
    \/ Heartbeat
    \/ BeforeUnload
    \/ Unmount
    \/ Mount
    \/ Open
    \/ Close
    \/ ReceivePresence

SpecLifecycle == Init /\ [][NextLifecycle]_vars

(* ---------------- leaving and coming back ---------------- *)
NextRooms ==
    \/ SubmitAny
    \/ ReceiveMalformed
    \/ BeforeUnload
    \/ Unmount
    \/ Mount
    \/ OpenRoot

SpecRooms == Init /\ [][NextRooms]_vars

(* ---------------- one session in one room ---------------- *)
SessionPresenceFrames ==
    {PresenceFrame("bob", st, "t1", "c1") : st \in {Undefined, "offline"}}
    \cup {PresenceFrame("ann", "offline", Undefined, Undefined)}
SessionSnapshotFrames ==
    {SnapshotFrame(TRUE, <<>>), SnapshotFrame(TRUE, <<Participant("bob", Undefined, "t1", "c1")>>)}
SessionAddFrames == {MessageFrame("add", id, "yo", "bob", "user") : id \in RemoteIds}

ReceiveSessionPresence == \E data \in SessionPresenceFrames : Receive(data)
ReceiveSessionSnapshot == \E data \in SessionSnapshotFrames : Receive(data)
ReceiveSessionAdd == \E data \in SessionAddFrames : Receive(data)

\* No reload and no unmount: the component stays mounted at its path.
NextSession ==
    \/ ReceiveSessionPresence
    \/ ReceiveSessionSnapshot
    \/ ReceiveSessionAdd
    \/ SubmitAny
    \/ Heartbeat

SpecSession == Init /\ [][NextSession]_vars

(* ---------------- unread messages ---------------- *)
\* how many unread messages are counted
MaxUnread == 2
\* add frames of another user: plain, mentioning the local user, mentioning
\* someone else
UnreadAddFrames ==
    {MessageFrame("add", id, c, "bob", "user") : id \in RemoteIds, c \in {"hi", "@ann", "@bob"}}

ReceiveUnreadAdd == unread < MaxUnread /\ \E data \in UnreadAddFrames : Receive(data)

NextUnread ==
    \/ ReceiveUnreadAdd
    \/ ReceiveMalformed
    \/ Focus
    \/ Blur
    \/ SubmitAny
    \/ Heartbeat

SpecUnread == Init /\ [][NextUnread]_vars

(* ---------------- reconcile over a stored list ---------------- *)
\* a list of n entries restored from local storage: those at the positions
\* in P are local messages that were still pending when they were stored,
\* the others are another user's
StoredList(n, P) ==
    [i \in 1..n |->
        IF i \in P THEN Entry(<<"p", i>>, "hi", "ann", "user", TRUE)
        ELSE Entry(<<"f", i>>, "hi", "bob", "user", FALSE)]

\* Variant C has mounted over a list as long as reconcile's window, or one
\* longer, with pending entries among the two oldest.
InitReconcile ==
    /\ variant = "C"
    /\ name = "ann"
    /\ messages \in {StoredList(n, P) :
                        n \in {RecentWindow, RecentWindow + 1}, P \in SUBSET {1, 2}}
    /\ participants = MountParticipants(<<>>, name)
    /\ unread = 0
    /\ focused = TRUE
    /\ pendingRef = <<>>
    /\ channel = "closed"
    /\ stored = PersistMessages(variant, messages)
    /\ storedP = PersistParticipants(participants)
    /\ handed = HandAll(<<>>, <<PresenceOut(name, "online")>>)
    /\ nextId = 1
    /\ events = 0
    /\ base = Len(messages)
    /\ uncaught = FALSE
    /\ phase = "mounted"
    /\ roomId = FirstRoom
    /\ shelf = <<>>
    /\ last = Did("mount", "none")
    /\ changes = 0
    /\ ledger = {}

\* add frames with a new identifier, with that of a stored entry, and with
\* none
ReconcileFrames ==
    {MessageFrame("add", id, "hi", "ann", "user") : id \in RemoteIds \cup {NoId, <<"p", 1>>}}
    \cup {MessageFrame("add", <<"f", 3>>, "yo", "bob", "user")}

ReceiveReconcile == \E data \in ReconcileFrames : Receive(data)

NextReconcile ==
    \/ ReceiveReconcile
    \/ Open

SpecReconcile == InitReconcile /\ [][NextReconcile]_vars

(* ---------------- a participant who falls silent ---------------- *)
\* the entries of user u counted in participants.filter(p => p.status ===
\* "online").length, the number shown as "n online"
CountedOnline(list, u) ==
    {i \in 1..Len(list) : list[i].user = u /\ list[i].status = "online"}

\* what an earlier session left under cc:participants:<room>: bob, online
SilentStored == <<Participant("bob", "online", "t1", "c1")>>

\* The component has mounted over that item.
InitSilent ==
    /\ variant \in Variants
    /\ name = "ann"
    /\ messages = <<>>
    /\ participants = MountParticipants(SilentStored, name)
    /\ unread = 0
    /\ focused = TRUE
    /\ pendingRef = <<>>
    /\ channel = "closed"
    /\ stored = PersistMessages(variant, <<>>)
    /\ storedP = PersistParticipants(participants)
    /\ handed = HandAll(<<>>, <<PresenceOut(name, "online")>>)
    /\ nextId = 1
    /\ events = 0
    /\ base = 0
    /\ uncaught = FALSE
    /\ phase = "mounted"
    /\ roomId = FirstRoom
    /\ shelf = <<>>
    /\ last = Did("mount", "none")
    /\ changes = 0
    /\ ledger = {}

\* No presence frame and no snapshot arrives; messages do, and the local
\* interval fires.
NextSilent ==
    \/ Heartbeat
    \/ ReceiveAdd
    \/ ReceiveMalformed
    \/ Open
    \/ Close

\* setInterval: a tick that is due happens
SpecSilent == InitSilent /\ [][NextSilent]_vars /\ WF_vars(Heartbeat)

(* ======================= claims ======================= *)

\* C1: in every variant, after any interleaving of local submits and inbound
\* frames, the message list never holds two entries with the same identifier.
C1_UniqueIds ==
    \A i, j \in 1..Len(messages) : i # j => messages[i].id # messages[j].id

\* a second delivery of an identifier already in a list of two or more entries
C1_Witness ==
    /\ Len(messages) >= 2
    /\ last.op = "add"
    /\ last.how \in {"duplicate", "byId"}

\* an inbound add frame that repeats the identifier and content of a frame
\* this client handed to send at a submit
IsEcho(data) ==
    \E f \in AddsHanded(handed) : f.id = data.id /\ f.content = data.content

\* C2: in every variant an inbound add frame carrying the identifier and the
\* content of an earlier local submit leaves the length of the list unchanged.
C2_EchoKeepsLength ==
    [][\A data \in AddFrames :
          (IsEcho(data) /\ Receive(data)) => Len(messages') = Len(messages)]_vars

\* C3: a submit of non-blank text appends one entry with a fresh identifier
\* to the list in the same step and hands exactly one add frame with that
\* identifier, that content and the current user name to send.
C3_SubmitAppendsAndSends ==
    [][\A text \in Texts :
          (Trim(text) # "" /\ Submit(text)) =>
             LET id == nanoid(nextId)
                 n == Len(messages)
                 f == AddOut(id, Trim(text), name)
             IN  /\ id \notin IdsOf(messages)
                 /\ \A g \in AddsHanded(handed) : g.id # id
                 /\ Len(messages') = n + 1
                 /\ SubSeq(messages', 1, n) = messages
                 /\ messages'[n + 1].id = id
                 /\ messages'[n + 1].content = Trim(text)
                 /\ messages'[n + 1].user = name
                 /\ HandedIn(handed', f) = 1
                 /\ \A g \in DOMAIN handed' : g # f => HandedIn(handed', g) = Handed(g)]_vars

\* the last step was a submit: its entry is the last of the list and its
\* frame has been handed to send once
C3_Witness ==
    /\ last = Did("submit", "sent")
    /\ Len(messages) >= 2
    /\ messages[Len(messages)].id = nanoid(nextId - 1)
    /\ Handed(AddOut(nanoid(nextId - 1), "hi", name)) = 1

\* C4: in every variant an inbound update frame whose identifier is in the
\* list sets that entry's content to the frame's and keeps the length of the
\* list and the identifier at every position.
C4_UpdateReplacesContent ==
    [][\A data \in UpdateFrames :
          (data.id \in IdsOf(messages) /\ Receive(data)) =>
             /\ Len(messages') = Len(messages)
             /\ \A i \in 1..Len(messages) : messages'[i].id = messages[i].id
             /\ messages'[IndexOfId(messages, data.id)].content = data.content]_vars

\* C7: in every variant a payload that is not valid JSON, or parses to a
\* non-object, or is an object with an unknown or missing type, leaves the
\* message list and the participant list unchanged and raises no error.
C7_MalformedIgnored ==
    [][\A data \in Malformed :
          (last'.op = "malformed" /\ Receive(data)) =>
             /\ messages' = messages
             /\ participants' = participants
             /\ ~uncaught']_vars

\* a payload that is not JSON has just been handled with both lists non-empty
C7_Witness ==
    /\ last = Did("malformed", "invalid")
    /\ Len(messages) >= 2
    /\ Len(participants) >= 1

\* C8: in every variant a submit whose send fails raises no error and leaves
\* the submitted message in the list.
C8_SubmitSurvivesSendFailure ==
    [][\A text \in Texts :
          (Trim(text) # "" /\ SendThrows(channel) /\ Submit(text)) =>
             /\ ~uncaught'
             /\ \E i \in 1..Len(messages') :
                   /\ messages'[i].id = nanoid(nextId)
                   /\ messages'[i].content = Trim(text)]_vars

\* a submit has just been made on a closed channel, after an open or a reload
C8_Witness ==
    /\ last = Did("submit", "sent")
    /\ channel = "closed"
    /\ events >= 1
    /\ nanoid(nextId - 1) \in IdsOf(messages)

\* C9 as stated: no add frame is handed to send more than once.
C9_AddHandedAtMostOnce ==
    \A f \in AddsHanded(handed) : handed[f] <= 1

\* the payloads of pendingRef as a set
Queued(map) == {map[i] : i \in 1..Len(map)}

\* C9, amended: in variants A and B an add frame is handed to send only by
\* the submit that created it, once; in variant C it is handed by that submit
\* and again by every channel open that finds its payload in pendingRef.
C9_NoRetryOutsideQueue ==
    [][\A f \in AddsHanded(handed') :
          LET by == HandedIn(handed', f) - Handed(f)
          IN  \/ by = 0
              \/ by = 1 /\ Handed(f) = 0 /\ f.id = nanoid(nextId) /\ nextId' = nextId + 1
              \/ by = 1 /\ variant = "C" /\ channel = "closed" /\ channel' = "open"
                        /\ f \in Queued(pendingRef)]_vars

\* variant A: the channel has just opened over a message submitted before,
\* whose frame was handed once and is not handed again
C9_Witness ==
    /\ variant = "A"
    /\ last.op = "open"
    /\ \E f \in AddsHanded(handed) : handed[f] = 1 /\ f.id \in IdsOf(messages)

C5_SnapshotReplaces ==
    [][\A data \in SnapshotFrames :
          (last'.op = "participants" /\ Receive(data)) =>
             LET list == data.participants
             IN  /\ Len(participants') = Len(list)
                 /\ \A i \in 1..Len(list) :
                       /\ participants'[i].user = list[i].user
                       /\ participants'[i].status =
                             (IF list[i].status = Undefined THEN "online" ELSE list[i].status)
                       /\ participants'[i].lastSeen = list[i].lastSeen
                       /\ participants'[i].id = list[i].id]_vars

\* a snapshot that lists one other user without a status has just replaced
\* the list: the local user's entry is gone
C5_Witness ==
    /\ last.op = "participants"
    /\ Len(participants) = 1
    /\ IndexOfUser(participants, name) = 0
    /\ participants[1].status = "online"

\* C6: in every variant a presence frame for a user not in the list appends
\* one entry at the end; for a user in the list it sets that entry's status
\* and lastSeen in place and leaves the length and every other entry alone.
C6_PresenceUpserts ==
    [][\A data \in PresenceFrames :
          (last'.op = "presence" /\ Receive(data)) =>
             LET n == Len(participants)
                 idx == IndexOfUser(participants, data.user)
                 status == IF data.status = Undefined THEN "online" ELSE data.status
             IN  IF idx = 0
                 THEN /\ Len(participants') = n + 1
                      /\ SubSeq(participants', 1, n) = participants
                      /\ participants'[n + 1].user = data.user
                      /\ participants'[n + 1].status = status
                 ELSE /\ Len(participants') = n
                      /\ \A j \in 1..n : j # idx => participants'[j] = participants[j]
                      /\ participants'[idx].user = data.user
                      /\ participants'[idx].status = status
                      /\ participants'[idx].lastSeen = data.lastSeen]_vars

\* a presence frame has just updated the first of two entries
C6_Witness ==
    /\ last = Did("presence", "known")
    /\ Len(participants) = 2
    /\ participants[1].status = "offline"
    /\ participants[1].lastSeen = Undefined
    /\ participants[2].user # participants[1].user

\* C11 as stated: once a mount has passed an offline frame to send, at
\* beforeunload or at unmount, its heartbeat passes no further online frame.
C11_NoHeartbeatAfterOffline ==
    [][phase # "mounted" => ~Heartbeat]_vars

\* C11, amended: an online presence frame is passed to send at mount and at
\* every tick of the interval, an offline frame for the same user name at
\* beforeunload and at unmount; after the unmount the interval is cleared and
\* nothing more is passed to send by that mount, while after a beforeunload
\* that the page survives the interval goes on.
C11_PresenceLifecycle ==
    /\ [](Handed(PresenceOut(name, "online")) >= 1)
    /\ [][LET on == PresenceOut(name, "online")
              off == PresenceOut(name, "offline")
          IN  /\ (Heartbeat \/ Mount) => HandedIn(handed', on) = Handed(on) + 1
              /\ (BeforeUnload \/ Unmount) => HandedIn(handed', off) = Handed(off) + 1
              /\ phase = "unmounted" => ~Heartbeat
              /\ (phase = "unmounted" /\ phase' = "unmounted") => handed' = handed]_vars

\* a mount that has sent its online frame at mount and at a tick has just
\* been unmounted and has passed its offline frame to send
C11_Witness ==
    /\ last.op = "unmount"
    /\ phase = "unmounted"
    /\ Handed(PresenceOut(name, "online")) >= 2
    /\ Handed(PresenceOut(name, "offline")) >= 1

\* C12: a participant counted online from whom no further presence frame
\* arrives, and whom no snapshot omits, eventually stops being counted in the
\* online count.
C12_SilentBecomesStale ==
    (CountedOnline(participants, "bob") # {}) ~> (CountedOnline(participants, "bob") = {})

\* C13: after the user has used a room, opening the application again at
\* its root path mounts the chat of that room.
C13_RootReturnsToLastRoom ==
    [][OpenRoot => roomId' = roomId]_vars

\* new is what a handler made of the entry old: the same identifier, or a
\* pending entry confirmed under the identifier of a frame with its user and
\* content
Continues(old, new) ==
    \/ new.id = old.id
    \/ old.pending /\ ~new.pending /\ new.user = old.user /\ new.content = old.content

\* C14: in every variant an inbound add or update frame and a local submit
\* leave every entry of the list at its position and put a new entry, if
\* any, at the end.
C14_AppendOrdered ==
    [][last'.op \in {"add", "update", "submit"} =>
          LET n == Len(messages)
          IN  /\ Len(messages') \in {n, n + 1}
              /\ \A i \in 1..n : Continues(messages[i], messages'[i])
              /\ Len(messages') = n + 1 =>
                    /\ messages'[n + 1].id \notin IdsOf(messages)
                    /\ \/ last'.op = "submit" /\ messages'[n + 1].id = nanoid(nextId)
                       \/ last'.op = "add" /\ nextId' = nextId]_vars

\* variant C has just confirmed, by user and content, the first of two or
\* more entries, which is still the first
C14_Witness ==
    /\ variant = "C"
    /\ last = Did("add", "byContent")
    /\ Len(messages) >= 2
    /\ messages[1].id \in RemoteIds
    /\ messages[1].user = name

\* C15: while the component stays mounted in its room, every step other
\* than a participants snapshot (a presence frame, a heartbeat, a message
\* frame, a submit) keeps every entry of the participant list, at its
\* position and under its user name.
C15_OnlySnapshotRemoves ==
    [][last'.op # "participants" =>
          /\ Len(participants') >= Len(participants)
          /\ \A i \in 1..Len(participants) :
                participants'[i].user = participants[i].user]_vars

\* an offline presence frame for the second of two listed users has just
\* been handled: the entry is still there, offline
C15_Witness ==
    /\ last = Did("presence", "known")
    /\ Len(participants) = 2
    /\ participants[2].user = "bob"
    /\ participants[2].status = "offline"

C17_UnreadCounts ==
    [][variant = "C" =>
          /\ \A data \in UnreadAddFrames :
                Receive(data) =>
                   unread' = unread + (IF ~focused \/ data.content = "@ann" THEN 1 ELSE 0)
          /\ Focus => unread' = 0
          /\ last'.op \notin {"add", "focus"} => unread' = unread]_vars

\* a frame that mentions the local user has just been counted although the
\* window is focused
C17_Witness ==
    /\ variant = "C"
    /\ last.op = "add"
    /\ focused
    /\ unread = 2

\* the step is reconcile taking the payload f out of pendingRef: an add
\* frame with f's identifier, or with f's user and content
Reconciles(f) ==
    \E data \in AddFrames :
        /\ Receive(data)
        /\ \/ data.id = f.id
           \/ data.user = f.user /\ data.content = f.content

PendingLike(list, data) ==
    {i \in 1..Len(list) :
        /\ i > Len(list) - 40
        /\ list[i].pending
        /\ list[i].user = data.user
        /\ list[i].content = data.content}

\* the greatest element of a non-empty set of positions
Latest(S) == CHOOSE i \in S : \A j \in S : j <= i

\* C19 as stated, second case: with no entry under the frame's identifier
\* and a matching pending entry among the last 40, the most recent such
\* entry ends up under the frame's identifier.
C19_ContentMatchTakesFrameId ==
    [][\A data \in ReconcileFrames :
          (/\ variant = "C"
           /\ Receive(data)
           /\ data.id \notin IdsOf(messages)
           /\ PendingLike(messages, data) # {}) =>
             messages'[Latest(PendingLike(messages, data))].id = data.id]_vars

\* C19, amended: in variant C an add frame is handled by exactly one of
\* three cases.  (1) An entry has the frame's identifier: the first such
\* entry takes the frame's fields and is not pending.  (2) Otherwise a
\* pending entry with the frame's user and content is among the last 40: the
\* most recent one takes the frame's fields, the identifier included when
\* the frame carries one, and is not pending.  (3) Otherwise the frame is
\* appended as a new entry, not pending.  Cases 1 and 2 keep the length,
\* and every other entry is left as it was.
C19_ReconcileCases ==
    [][\A data \in ReconcileFrames :
          (variant = "C" /\ Receive(data)) =>
             LET n == Len(messages)
                 byId == IndexOfId(messages, data.id)
                 like == PendingLike(messages, data)
                 hit == IF byId # 0 THEN byId ELSE IF like # {} THEN Latest(like) ELSE 0
             IN  IF hit # 0
                 THEN /\ Len(messages') = n
                      /\ \A j \in 1..n : j # hit => messages'[j] = messages[j]
                      /\ messages'[hit].id =
                            (IF data.id = NoId THEN messages[hit].id ELSE data.id)
                      /\ messages'[hit].content = data.content
                      /\ messages'[hit].user = data.user
                      /\ ~messages'[hit].pending
                 ELSE /\ Len(messages') = n + 1
                      /\ SubSeq(messages', 1, n) = messages
                      /\ messages'[n + 1] =
                            Entry(data.id, data.content, data.user, data.role, FALSE)]_vars

\* over a list of 41 entries whose two oldest were pending, a frame with a
\* new identifier has just confirmed the second: the first, outside the
\* window, is still pending
C19_Witness ==
    /\ last = Did("add", "byContent")
    /\ Len(messages) = RecentWindow + 1
    /\ messages[1].pending
    /\ ~messages[2].pending
    /\ messages[2].id \in RemoteIds

\* C20: in variants A and B an inbound add frame whose identifier is in the
\* list leaves the list as it was, whatever the frame's other fields; an
\* entry of the list changes only when an update frame with its identifier
\* is handled.
C20_FirstWriteWins ==
    [][variant # "C" =>
          /\ \A data \in AddFrames :
                (Receive(data) /\ data.id \in IdsOf(messages)) => messages' = messages
          /\ \A i \in 1..Len(messages) :
                (i <= Len(messages') /\ messages'[i] # messages[i]) =>
                   (\E data \in UpdateFrames : Receive(data) /\ messages[i].id = data.id)]_vars

\* variant B has just dropped an add frame that repeats the identifier of
\* the local message at the head of the list
C20_Witness ==
    /\ variant = "B"
    /\ last = Did("add", "duplicate")
    /\ messages[1].id = nanoid(1)
    /\ messages[1].content = "hi"
    /\ messages[1].user = name

\* C21: in variants A and B an update frame whose identifier matches no
\* entry leaves the message list as it was, and no update frame changes the
\* length of the list or the identifier at any position.
C21_UpdateNeverInserts ==
    [][variant # "C" =>
          \A data \in UpdateFrames :
              (last'.op = "update" /\ Receive(data)) =>
                 /\ Len(messages') = Len(messages)
                 /\ \A i \in 1..Len(messages) : messages'[i].id = messages[i].id
                 /\ data.id \notin IdsOf(messages) => messages' = messages]_vars

\* variant A has just handled an update frame for an identifier that is not
\* in its list of one local message
C21_Witness ==
    /\ variant = "A"
    /\ last = Did("update", "nomatch")
    /\ Len(messages) = 1
    /\ messages[1].id = nanoid(1)
(* ---------------- frames without an identifier ---------------- *)
\* add and update frames whose identifier is absent or empty
IdlessFrames ==
    {MessageFrame(t, id, a[2], a[1], "user") :
        t \in {"add", "update"}, id \in {NoId, EmptyId}, a \in Authored}

ReceiveIdless == \E data \in IdlessFrames : Receive(data)

NextIdless ==
    \/ SubmitAny
    \/ ReceiveAdd
    \/ ReceiveUpdate
    \/ ReceiveIdless

SpecIdless == Init /\ [][NextIdless]_vars

\* C22: in variants A and B an add frame whose identifier is absent or empty
\* leaves the message list as it was, and no entry of the list is ever
\* without an identifier.
C22_AddWithoutIdDropped ==
    /\ [](variant # "C" => \A i \in 1..Len(messages) : ~Falsy(messages[i].id))
    /\ [][variant # "C" =>
             \A data \in IdlessFrames :
                 (last'.op = "add" /\ data.type = "add" /\ Receive(data)) =>
                    messages' = messages]_vars

C22_Witness ==
    /\ variant = "B"
    /\ last = Did("add", "dropped")
    /\ Len(messages) = 2
    /\ messages[1].id = nanoid(1)
    /\ messages[2].id \in RemoteIds

(* ---------------- what variant C keeps in storage ---------------- *)
\* C23: in variant C the list under the room's messages key is the last
\* min(500, n) entries of the n-entry message list, in the same order, and a
\* reload restores exactly those, at most 500.
C23_StoredIsRecentSuffix ==
    /\ [](variant = "C" =>
            LET n == Len(messages)
                k == IF n < PersistLimit THEN n ELSE PersistLimit
            IN  /\ stored.present
                /\ Len(stored.items) = k
                /\ \A i \in 1..k : stored.items[i] = messages[n - k + i])
    /\ [][(variant = "C" /\ last'.op = "reload") =>
             /\ Len(messages') <= PersistLimit
             /\ messages' = stored.items]_vars

C23_Witness ==
    /\ variant = "C"
    /\ last = Did("reload", "none")
    /\ Len(messages) = PersistLimit
    /\ messages[1].id = <<"f", 3>>
    /\ stored.items = messages

(* ---------------- the room changes under the mounted component ---------------- *)
\* the rooms a path /:room names here
Rooms == {FirstRoom, General}
\* how often the room changes under the mounted component
MaxRoomChanges == 2

\* The route /:room renders the same AppInner for every room, so a
\* client-side navigation changes useParams().room while the component and
\* its state stay.  usePartySocket is given the new room and connects anew.
\* A, B: usePersistentState keeps its state; its effect, whose dependencies
\* are [key, state], writes that state under the new key; the presence effect,
\* whose dependencies include roomId, runs its cleanup (offline) and runs
\* again (online).  C: the load effect, whose dependency is roomId, sets both
\* lists from the new room's items, the persist effects write them back, and
\* pendingRef keeps its entries.
ChangeRoom(room) ==
    LET items == ItemsOf(shelf, roomId, stored, storedP, room)
    IN  /\ phase # "unmounted"
        /\ room # roomId
        /\ changes < MaxRoomChanges
        /\ roomId' = room
        /\ shelf' = ShelfAt(shelf, roomId, stored, storedP, room)
        /\ messages' = IF variant = "C" THEN LoadItem(items.m) ELSE messages
        /\ participants' =
             IF variant = "C" THEN LoadItem(items.p)
             ELSE sendPresenceLocal(sendPresenceLocal(participants, name, "offline"),
                                    name, "online")
        /\ stored' = PersistMessages(variant, messages')
        /\ storedP' = PersistParticipants(participants')
        /\ handed' = IF variant = "C" THEN handed
                     ELSE HandAll(handed, <<PresenceOut(name, "offline"),
                                            PresenceOut(name, "online")>>)
        /\ channel' = "closed"
        /\ uncaught' = FALSE
        /\ last' = Did("room", "changed")
        /\ changes' = changes + 1
        /\ UNCHANGED <<variant, name, unread, focused, pendingRef, nextId, events, base,
                       phase, ledger>>

ChangeRoomAny == \E room \in Rooms : ChangeRoom(room)

\* one add frame of another client
PartitionFrames == {MessageFrame("add", id, "yo", "bob", "user") : id \in RemoteIds}
ReceivePartition == \E data \in PartitionFrames : Receive(data)

NextPartition ==
    \/ SubmitAny
    \/ ReceivePartition
    \/ ChangeRoomAny
    \/ Open
    \/ Close

SpecPartition == Init /\ [][NextPartition]_vars

\* the identifiers of the list stored under cc:messages:<r>
StoredIds(r) == IdsOf(LoadItem(ItemsOf(shelf, roomId, stored, storedP, r).m))

\* every message stored under a room's key was submitted or received while
\* that room was current
StoredInItsRoom ==
    \A r \in Rooms : \A id \in StoredIds(r) :
        <<"submitted", r, id>> \in ledger \/ <<"received", r, id>> \in ledger

\* every add frame passed to a room's channel carries a message submitted
\* while that room was current
SentInItsRoom ==
    \A e \in ledger : e[1] = "sent" => <<"submitted", e[2], e[3]>> \in ledger

\* C24: for any sequence of room changes under the mounted component,
\* interleaved with submits and inbound frames, the list stored under a
\* room's messages key holds only messages submitted or received while that
\* room was current, and the add frames sent to a room's channel carry only
\* messages submitted while it was current.
C24_RoomsPartitioned == StoredInItsRoom /\ SentInItsRoom

(* ---------------- what leaves variant C's pending queue ---------------- *)
\* the payload with this identifier is in the queue
InQueue(map, id) == \E j \in 1..Len(map) : map[j].id = id

\* a step that takes the payload of identifier id out of the queue
Dequeues(id) == InQueue(pendingRef, id) /\ ~InQueue(pendingRef', id)

\* an add frame with another identifier never takes a payload out
OtherIdNeverDequeues ==
    [][variant = "C" =>
          \A data \in AddFrames : \A i \in 1..Len(pendingRef) :
              (last'.op = "add" /\ Dequeues(pendingRef[i].id) /\ Receive(data)) =>
                 data.id = pendingRef[i].id]_vars

\* C25: in variant C a payload leaves the pending queue only when an add
\* frame with that message's own identifier comes in; a frame with another
\* identifier never removes it.
C25_RemovedOnlyByOwnId ==
    [][variant = "C" =>
          \A i \in 1..Len(pendingRef) :
              Dequeues(pendingRef[i].id) =>
                 \E data \in AddFrames :
                     data.id = pendingRef[i].id /\ last'.op = "add" /\ Receive(data)]_vars

\* every entry shown as pending has its payload in the queue
PendingAreQueued ==
    \A i \in 1..Len(messages) : messages[i].pending => InQueue(pendingRef, messages[i].id)

\* every payload in the queue belongs to an entry still shown as pending
QueuedArePending ==
    \A j \in 1..Len(pendingRef) :
        \E i \in 1..Len(messages) : messages[i].id = pendingRef[j].id /\ messages[i].pending

\* C26: in variant C, in every reachable state, also right after a reload
\* that restores the list from local storage, every entry whose pending flag
\* is true has its payload in the pending queue and every payload in the
\* queue belongs to an entry still shown as pending.
C26_PendingIffQueued == variant = "C" => PendingAreQueued /\ QueuedArePending

(* ---------------- snapshots that list every user once ---------------- *)
\* no two entries of the list have the same user name
DistinctUsers(list) ==
    \A i, j \in 1..Len(list) : list[i].user = list[j].user => i = j

DistinctSnapshotFrames == {f \in SnapshotFrames : DistinctUsers(f.participants)}
\* presence frames of either user, and one that names no user
AnyPresenceFrames ==
    PresenceFrames \cup {PresenceFrame(Undefined, "online", Undefined, Undefined)}

ReceiveAnyPresence == \E data \in AnyPresenceFrames : Receive(data)
ReceiveDistinctSnapshot == \E data \in DistinctSnapshotFrames : Receive(data)

NextDistinct ==
    \/ ReceiveAnyPresence
    \/ ReceiveDistinctSnapshot
    \/ Heartbeat
    \/ BeforeUnload
    \/ Reload

SpecDistinct == Init /\ [][NextDistinct]_vars

\* C27: starting from a participant list with distinct user names, the list
\* never holds two entries with the same user name, whatever presence
\* frames, local online and offline heartbeats and snapshots with distinct
\* user names come in.
C27_UsersStayDistinct == DistinctUsers(participants)

C27_Witness ==
    /\ last = Did("presence", "known")
    /\ Len(participants) = 2
    /\ participants[1].user = "ann"
    /\ participants[2].user = "bob"
    /\ participants[2].status = "offline"

====
